---- MODULE Spec2Model ----
(***************************************************************************)
(* A model of two parts of spinta:                                         *)
(*                                                                         *)
(*  - the push pipeline of spinta/cli/push.py: the chain of generators     *)
(*    source -> _prepare_rows_for_push -> _check_push_state -> islice ->   *)
(*    _push_to_remote_spinta -> _save_push_state, pulled by the driver     *)
(*    loop of push();                                                      *)
(*  - the write path of spinta/backends/postgresql/__init__.py (further    *)
(*    down).                                                               *)
(*                                                                         *)
(* The remote server, the source table and the push state file are the     *)
(* environment: their contents and answers are drawn from small sets.      *)
(***************************************************************************)
EXTENDS Integers, Sequences, FiniteSets, TLC

(* ---- bounds ---- *)
MaxIds == 3
MaxRuns == 2

(* ---- values ---- *)
None == 0
Ids == 1..MaxIds

\* len('{"_data":[') and len(']}')
PrefixLen == 10
SuffixLen == 2

\* --chunk-size values tried; --stop-row values tried (0: option not given)
ChunkSizes == {1, 21, 28}
StopRows == {0, 1, 2}

\* The non-reserved fields of the source row with a given _id.
Val(id) == id

\* len(json.dumps(fix_data_for_json(row.data))): rows differ in length.
RowLen(row) == 3 + row.val

\* sha1(msgpack(sorted(flatten(take(data))))): take() keeps only the keys that
\* do not start with '_', so the checksum is a function of the non-reserved
\* fields alone; sha1 is taken to be collision free.
Checksum(row) == 100 + row.val

\* The checksum of an older version of a row (what a state file written before
\* the row changed in the source holds).
StaleSum == Checksum([val |-> 0])

\* The _revision the remote assigns when it stores row id: an opaque token of
\* the remote, not a function of the local checksum.
RemoteRevision(id) == 200 + id

VARIABLES
    source,      \* set of _ids the source table holds (read in ascending order)
    pstate,      \* the push state table: id -> rev column (None: no entry)
    run,         \* number of push invocations started
    state,       \* --state given in this run
    stop_row,    \* --stop-row of this run (0: not given)
    chunk_size,  \* --chunk-size of this run
    stop_time,   \* --stop-time given in this run
    timeup,      \* _add_stop_time found the time budget spent
    pc,          \* where the pipeline is
    pos,         \* next source row to read
    saved,       \* _check_push_state: the id -> rev snapshot of the group
    snapped,     \* the snapshot has been taken
    taken,       \* rows that passed islice
    chunk,       \* len(chunk) in _push_to_remote_spinta
    ready,       \* rows buffered in _push_to_remote_spinta
    pending,     \* the row whose arrival triggered the flush (<<>>: final flush)
    resp,        \* _send_and_receive: the '_data' of the response
    k,           \* _send_and_receive: position in zip(rows, data)
    posts,       \* history: the POSTs of this run
    entered,     \* history: ids that entered the batch stage in this run
    dropped,     \* history: ids whose checksum equalled the stored one when read
    committed,   \* history: ids written to the state table in this run
    returned,    \* history: id -> _revision last returned by the remote
    sentCount,   \* history: id -> number of POST bodies (all runs) holding it
    errors,      \* history: a POST failed or an exception was logged in this run
    nostate,     \* history: some run was made without --state
    before,      \* history: the state table when this run started
    prevErr,     \* history: an earlier run had errors
    prevCut      \* history: an earlier run had --stop-row or ran out of time

pushVars == <<source, pstate, run, state, stop_row, chunk_size, stop_time,
              timeup, pc, pos, saved, snapped, taken, chunk, ready, pending,
              resp, k, posts, entered, dropped, committed, returned, sentCount,
              errors, nostate, before, prevErr, prevCut>>

(* ---- the internal backend (spinta/backends/postgresql) ---- *)
VARIABLES
    main,        \* committed rows of the model's main table: _id -> row
    lists,       \* committed rows of the model's lists table
    changes,     \* committed rows of the model's changes table
    txns,        \* committed rows (ids) of the transaction table
    txSeq,       \* the sequence behind transaction._id
    changeSeq,   \* the sequence behind changes.change
    ops,         \* requests started (each gets a fresh _revision)
    wpc,         \* per request: where its handler is
    wop,         \* per request: the DataItem (action, target, patch)
    wsaved,      \* per request: data.saved, the row it read
    wtx,         \* per request: WriteTransaction.id
    wmain,       \* per request: its uncommitted write to main (<<>>: none)
    wlists,      \* per request: its uncommitted rows of lists for one id
    wlog,        \* per request: its uncommitted rows of the changes table
    werr,        \* per request: the exception that ended it
    applied      \* history: committed updates, with the revision each had read

pgVars == <<main, lists, changes, txns, txSeq, changeSeq, ops, wpc, wop,
            wsaved, wtx, wmain, wlists, wlog, werr, applied>>

\* Single calls of functions of the backend and of the API
VARIABLES
    fn,          \* the function called ("none": no call)
    arg,         \* its arguments
    out          \* what it returned

fnVars == <<fn, arg, out>>

(* ---- the table registry: the internal model `table` ---- *)
VARIABLES
    registry,    \* rows of the internal table `table`: _id and name
    tableSeq,    \* the sequence behind table._id
    calls,       \* calls of get_table_name started
    tpc,         \* per caller: where its call of get_table_name is
    tname,       \* per caller: the qualified name it asks for
    results      \* history: what the calls gave, by name

regVars == <<registry, tableSeq, calls, tpc, tname, results>>

vars == <<pushVars, pgVars, fnVars, regVars>>

(* ---- _prepare_rows_for_push ---- *)
PushRow(id) ==
    [op |-> "upsert", id |-> id, where |-> id, val |-> Val(id),
     rev |-> None, saved |-> FALSE]

(* ---- _check_push_state ---- *)
\* rev = sha1(...); row.rev = rev; row.saved = _id in saved
Checked(row, snapshot) ==
    [row EXCEPT !.rev = Checksum(row), !.saved = (snapshot[row.id] # None)]

NothingChangedUnhashed(row, snapshot) == snapshot[row.id] = row.val

\* if saved.get(_id) == row.rev: continue
NothingChanged(row, snapshot) == snapshot[row.id] = row.rev

(* ---- _push_to_remote_spinta ---- *)
NeedFlushEmpty(rdy, chunkLen, dataLen, size) ==
    chunkLen + dataLen + SuffixLen > size

\* if ready and len(chunk) + len(data) + slen > chunk_size
NeedFlush(rdy, chunkLen, dataLen, size) ==
    rdy # <<>> /\ chunkLen + dataLen + SuffixLen > size

GrowPadded(rdy, chunkLen, dataLen) ==
    chunkLen + (IF rdy # <<>> THEN 2 ELSE 0) + dataLen

\* chunk += (',' if ready else '') + data
Grow(rdy, chunkLen, dataLen) ==
    chunkLen + (IF rdy # <<>> THEN 1 ELSE 0) + dataLen

(* ---- _save_push_state ---- *)
SaveRowUpdateOnly(table, row) ==
    IF table[row.id] # None THEN [table EXCEPT ![row.id] = row.rev] ELSE table

\* table.update().where(id == _id).values(rev=row.rev) when row.saved, else
\* table.insert().values(id=_id, rev=row.rev)
SaveRow(table, row) ==
    IF row.saved
    THEN IF table[row.id] # None
         THEN [table EXCEPT ![row.id] = row.rev]
         ELSE table
    ELSE [table EXCEPT ![row.id] = row.rev]

\* The insert of an id that is already in the table violates its primary key.
SaveRaises(table, row) == ~row.saved /\ table[row.id] # None

(* ---- answers of the remote ---- *)
RightAnswer(rows) ==
    [i \in 1..Len(rows) |->
        [id |-> rows[i].id, revision |-> RemoteRevision(rows[i].id)]]

\* '_data' lists with one wrong _id, and one that is too short
WrongAnswers(rows) ==
    {[RightAnswer(rows) EXCEPT ![j].id = None] : j \in 1..Len(rows)}
    \cup {SubSeq(RightAnswer(rows), 1, Len(rows) - 1)}

BodyIds(post) == {post.rows[i].id : i \in 1..Len(post.rows)}
PostedIds == UNION {BodyIds(posts[i]) : i \in 1..Len(posts)}
ReadyIds == {ready[i].id : i \in 1..Len(ready)}

RECURSIVE Concat(_)
Concat(ss) == IF ss = <<>> THEN <<>> ELSE Head(ss) \o Concat(Tail(ss))

PostedSeq == Concat([i \in 1..Len(posts) |->
                 [j \in 1..Len(posts[i].rows) |-> posts[i].rows[j].id]])


(***************************************************************************)
(* The internal backend: one model with a scalar property (val) and a list *)
(* property (tags), its main, lists and changes tables, and requests that  *)
(* each run one write in their own transaction.  The database is           *)
(* PostgreSQL at its default isolation level: a statement sees what is     *)
(* committed and the transaction's own writes; a row written by a          *)
(* transaction is locked until it commits or rolls back, and an UPDATE or  *)
(* DELETE that waited for the lock evaluates its WHERE on the row as       *)
(* committed; sequences are not rolled back.                               *)
(***************************************************************************)
MaxWriters == 2
MaxOps == 3
MaxPgIds == 2

Writers == 1..MaxWriters
PgIds == 1..MaxPgIds
PropVals == {1, 2}
\* a list value is told by its length; None: the property is not given
ListLens == {None, 1}
Actions == {"insert", "update", "patch", "delete"}

\* prepare(): the columns of the main table and of the lists table, and
\* get_changes_table()
MainColumns == {"_id", "_revision", "_transaction", "val", "tags"}
ListsColumns == {"transaction", "id", "key", "data"}
ChangesColumns == {"change", "revision", "transaction", "id", "action", "data"}

\* connection.execute(table.insert(), params): each column takes the parameter
\* of its own name; a column without one is NULL, and a parameter that names
\* no column of the table is not used.
InsertValues(columns, params) ==
    [c \in columns |-> IF c \in DOMAIN params THEN params[c] ELSE None]

\* No row: what a SELECT that finds nothing stands for.
NoRow == [c \in MainColumns |-> None]

NoItem == [action |-> "none", id |-> None, val |-> None, tags |-> None,
           revision |-> None, empty |-> FALSE]

PgQuiet ==
    /\ main = [i \in PgIds |-> NoRow]
    /\ lists = {}
    /\ changes = {}
    /\ txns = {}
    /\ txSeq = 0 /\ changeSeq = 0 /\ ops = 0
    /\ wpc = [w \in Writers |-> "idle"]
    /\ wop = [w \in Writers |-> NoItem]
    /\ wsaved = [w \in Writers |-> NoRow]
    /\ wtx = [w \in Writers |-> None]
    /\ wmain = [w \in Writers |-> <<>>]
    /\ wlists = [w \in Writers |-> <<>>]
    /\ wlog = [w \in Writers |-> {}]
    /\ werr = [w \in Writers |-> "none"]
    /\ applied = {}

\* A row of main another transaction wrote and has not yet committed.
Locked(w, id) ==
    \E o \in Writers \ {w} : wmain[o] # <<>> /\ wmain[o][1] = id

InFlight(w) == wpc[w] \in {"begun", "read", "written", "logged"}

\* The transaction scope is left by an exception: rollback.
Rollback(w, err) ==
    /\ wpc' = [wpc EXCEPT ![w] = "failed"]
    /\ werr' = [werr EXCEPT ![w] = err]
    /\ wmain' = [wmain EXCEPT ![w] = <<>>]
    /\ wlists' = [wlists EXCEPT ![w] = <<>>]
    /\ wlog' = [wlog EXCEPT ![w] = {}]

TransactionRowAutocommit(table, tx) == table \cup {tx}

\* connection.execute(table.main.insert()...) on the connection of
\* engine.begin(): the row of the transaction table is written inside the
\* transaction it names, and others see it at commit.
TransactionRow(table, tx) == table

\* PostgreSQL.transaction(write=True): a row of the transaction table is
\* inserted and its id becomes WriteTransaction.id; the request carries a
\* DataItem whose patch, unless empty, holds a new _revision.
PgBegin(w) ==
    /\ ~InFlight(w) /\ ops < MaxOps
    /\ \E a \in Actions, id \in PgIds, v \in PropVals, t \in ListLens,
          e \in BOOLEAN :
         /\ e => a \in {"update", "patch", "delete"}
         /\ a = "delete" => e
         /\ e => v = 1 /\ t = None
         /\ wop' = [wop EXCEPT ![w] =
                      [action |-> a, id |-> id,
                       val |-> IF e THEN None ELSE v, tags |-> t,
                       revision |-> ops + 1, empty |-> e]]
    /\ ops' = ops + 1
    /\ txSeq' = txSeq + 1
    /\ wtx' = [wtx EXCEPT ![w] = txSeq + 1]
    /\ wpc' = [wpc EXCEPT ![w] = "begun"]
    /\ wsaved' = [wsaved EXCEPT ![w] = NoRow]
    /\ wmain' = [wmain EXCEPT ![w] = <<>>]
    /\ wlists' = [wlists EXCEPT ![w] = <<>>]
    /\ wlog' = [wlog EXCEPT ![w] = {}]
    /\ werr' = [werr EXCEPT ![w] = "none"]
    /\ txns' = TransactionRow(txns, txSeq + 1)
    /\ UNCHANGED <<pushVars, fnVars, regVars>>
    /\ UNCHANGED <<main, lists, changes, changeSeq, applied>>

\* getone(context, model, backend, id_=...): data.saved of an update, patch or
\* delete; zero rows raise ItemDoesNotExist.
PgRead(w) ==
    /\ wpc[w] = "begun"
    /\ IF wop[w].action = "insert"
       THEN /\ wpc' = [wpc EXCEPT ![w] = "read"]
            /\ UNCHANGED <<wsaved, werr, wmain, wlists, wlog>>
       ELSE IF main[wop[w].id] = NoRow
            THEN Rollback(w, "ItemDoesNotExist") /\ UNCHANGED wsaved
            ELSE /\ wsaved' = [wsaved EXCEPT ![w] = main[wop[w].id]]
                 /\ wpc' = [wpc EXCEPT ![w] = "read"]
                 /\ UNCHANGED <<werr, wmain, wlists, wlog>>
    /\ UNCHANGED <<pushVars, fnVars, regVars>>
    /\ UNCHANGED <<main, lists, changes, txns, txSeq, changeSeq, ops, wop, wtx,
                   applied>>

\* The rows of the lists table that hang on a row of main.
ListsOf(id) == {r \in lists : r.id = id}

\* _get_lists_only() and flatten(): the data of the model has one list, and
\* each of its items gives one row of the lists table.
ListsRows(tx, pk, tags) ==
    {InsertValues(ListsColumns,
         [transaction |-> tx, id |-> pk, key |-> "tags", data |-> i]) :
       i \in 1..tags}

UpdateListsTableKeepOld(old, action, tx, pk, tags) ==
    old \cup ListsRows(tx, pk, tags)

\* _update_lists_table(): every action but insert first deletes the rows of
\* pk; then the rows of the lists in data are inserted.
UpdateListsTable(old, action, tx, pk, tags) ==
    (IF action # "insert" THEN {} ELSE old) \cup ListsRows(tx, pk, tags)

UpdateWhereIdOnly(row, id, read) == row # NoRow /\ row["_id"] = id

\* where(table.main.c._id == id_).where(table.main.c._revision ==
\* data.saved['_revision'])
UpdateWhere(row, id, read) ==
    row # NoRow /\ row["_id"] = id /\ row["_revision"] = read["_revision"]

\* insert(): table.main.insert() of the patch, then the lists table
PgInsert(w) ==
    /\ wpc[w] = "read" /\ wop[w].action = "insert"
    /\ ~Locked(w, wop[w].id)
    /\ IF main[wop[w].id] # NoRow
       THEN Rollback(w, "IntegrityError")
       ELSE /\ wmain' = [wmain EXCEPT ![w] =
                  <<wop[w].id,
                    InsertValues(MainColumns,
                        [_id |-> wop[w].id, _revision |-> wop[w].revision,
                         _transaction |-> wtx[w], val |-> wop[w].val,
                         tags |-> wop[w].tags])>>]
            /\ wlists' = [wlists EXCEPT ![w] =
                  <<wop[w].id,
                    UpdateListsTable(ListsOf(wop[w].id), "insert", wtx[w],
                                     wop[w].id, wop[w].tags)>>]
            /\ wpc' = [wpc EXCEPT ![w] = "written"]
            /\ UNCHANGED <<werr, wlog>>
    /\ UNCHANGED <<pushVars, fnVars, regVars>>
    /\ UNCHANGED <<main, lists, changes, txns, txSeq, changeSeq, ops, wop,
                   wsaved, wtx, applied>>

\* {**data.saved, **data.patch}
Merged(read, item) ==
    [read EXCEPT !["_revision"] = item.revision,
                 !["val"] = IF item.val # None THEN item.val ELSE @,
                 !["tags"] = IF item.tags # None THEN item.tags ELSE @]

\* update(): an empty patch is passed on untouched; otherwise the UPDATE with
\* its WHERE, rowcount 0 raises, and the lists table follows.
PgUpdate(w) ==
    /\ wpc[w] = "read" /\ wop[w].action \in {"update", "patch"}
    /\ IF wop[w].empty
       THEN /\ wpc' = [wpc EXCEPT ![w] = "written"]
            /\ UNCHANGED <<werr, wmain, wlists, wlog>>
       ELSE /\ ~Locked(w, wsaved[w]["_id"])
            /\ LET id == wsaved[w]["_id"] IN
               IF UpdateWhere(main[id], id, wsaved[w])
               THEN /\ wmain' = [wmain EXCEPT ![w] =
                          <<id, [main[id] EXCEPT
                                   !["_revision"] = wop[w].revision,
                                   !["val"] = IF wop[w].val # None
                                              THEN wop[w].val ELSE @,
                                   !["tags"] = IF wop[w].tags # None
                                               THEN wop[w].tags ELSE @]>>]
                    /\ wlists' = [wlists EXCEPT ![w] =
                          <<id, UpdateListsTable(ListsOf(id), wop[w].action,
                                    wtx[w], id, Merged(wsaved[w], wop[w])["tags"])>>]
                    /\ wpc' = [wpc EXCEPT ![w] = "written"]
                    /\ UNCHANGED <<werr, wlog>>
               ELSE Rollback(w, "UpdateFailed")
    /\ UNCHANGED <<pushVars, fnVars, regVars>>
    /\ UNCHANGED <<main, lists, changes, txns, txSeq, changeSeq, ops, wop,
                   wsaved, wtx, applied>>

\* delete(): DELETE FROM main WHERE _id = saved._id, which the foreign key of
\* the lists table refuses while rows of lists hang on the row; then the
\* lists table.
PgDelete(w) ==
    /\ wpc[w] = "read" /\ wop[w].action = "delete"
    /\ ~Locked(w, wsaved[w]["_id"])
    /\ LET id == wsaved[w]["_id"] IN
       IF main[id] # NoRow /\ ListsOf(id) # {}
       THEN Rollback(w, "IntegrityError")
       ELSE /\ wmain' = [wmain EXCEPT ![w] =
                  IF main[id] # NoRow THEN <<id, NoRow>> ELSE <<>>]
            /\ wlists' = [wlists EXCEPT ![w] =
                  <<id, UpdateListsTable(ListsOf(id), "delete", wtx[w], id,
                                         None)>>]
            /\ wpc' = [wpc EXCEPT ![w] = "written"]
            /\ UNCHANGED <<werr, wlog>>
    /\ UNCHANGED <<pushVars, fnVars, regVars>>
    /\ UNCHANGED <<main, lists, changes, txns, txSeq, changeSeq, ops, wop,
                   wsaved, wtx, applied>>

\* The parameters create_changelog_entry() hands to table.changes.insert().
ChangelogParams(item, read, tx) ==
    [id |-> IF read # NoRow THEN read["_id"] ELSE item.id,
     _revision |-> IF ~item.empty THEN item.revision ELSE read["_revision"],
     transaction |-> tx,
     action |-> item.action,
     data |-> <<item.val, item.tags>>]

NextChangeOfCommitted(seq, table) ==
    IF table = {} THEN 1
    ELSE 1 + (CHOOSE m \in {c.change : c \in table} :
                 \A c \in table : c.change <= m)

\* sa.Column('change', BIGINT, primary_key=True): the column's sequence gives
\* the next value, whatever the table holds.
NextChange(seq, table) == seq + 1

\* create_changelog_entry(): change comes from the column's sequence.
PgChangelog(w) ==
    /\ wpc[w] = "written"
    /\ changeSeq' = NextChange(changeSeq, changes)
    /\ wlog' = [wlog EXCEPT ![w] = @ \cup
          {[InsertValues(ChangesColumns,
                ChangelogParams(wop[w], wsaved[w], wtx[w]))
            EXCEPT !["change"] = NextChange(changeSeq, changes)]}]
    /\ wpc' = [wpc EXCEPT ![w] = "logged"]
    /\ UNCHANGED <<pushVars, fnVars, regVars>>
    /\ UNCHANGED <<main, lists, changes, txns, txSeq, ops, wop, wsaved, wtx,
                   wmain, wlists, werr, applied>>

\* The transaction scope is left normally: commit.
PgCommit(w) ==
    /\ wpc[w] = "logged"
    /\ main' = IF wmain[w] = <<>> THEN main
               ELSE [main EXCEPT ![wmain[w][1]] = wmain[w][2]]
    /\ lists' = IF wlists[w] = <<>> THEN lists
                ELSE (lists \ ListsOf(wlists[w][1])) \cup wlists[w][2]
    /\ changes' = changes \cup wlog[w]
    /\ txns' = txns \cup {wtx[w]}
    /\ applied' = IF wop[w].action \in {"update", "patch"} /\ wmain[w] # <<>>
                  THEN applied \cup {[id |-> wsaved[w]["_id"],
                                      read |-> wsaved[w]["_revision"],
                                      tx |-> wtx[w]]}
                  ELSE applied
    /\ wmain' = [wmain EXCEPT ![w] = <<>>]
    /\ wlists' = [wlists EXCEPT ![w] = <<>>]
    /\ wlog' = [wlog EXCEPT ![w] = {}]
    /\ wpc' = [wpc EXCEPT ![w] = "committed"]
    /\ UNCHANGED <<pushVars, fnVars, regVars>>
    /\ UNCHANGED <<txSeq, changeSeq, ops, wop, wsaved, wtx, werr>>

\* The request is cancelled: the scope is unwound.
PgCancel(w) ==
    /\ InFlight(w)
    /\ Rollback(w, "Cancelled")
    /\ UNCHANGED <<pushVars, fnVars, regVars>>
    /\ UNCHANGED <<main, lists, changes, txns, txSeq, changeSeq, ops, wop,
                   wsaved, wtx, applied>>

\* wipe(): the lists, changes and main tables of the model are emptied, in
\* one transaction; the DELETE on main waits while another transaction holds
\* a row of it.
PgWipe(w) ==
    /\ ~InFlight(w) /\ ops < MaxOps
    /\ \A o \in Writers \ {w} :
          IF wmain[o] = <<>> THEN TRUE ELSE main[wmain[o][1]] = NoRow
    /\ ops' = ops + 1
    /\ txSeq' = txSeq + 1
    /\ txns' = txns \cup {txSeq + 1}
    /\ lists' = {}
    /\ changes' = {}
    /\ main' = [i \in PgIds |-> NoRow]
    /\ wop' = [wop EXCEPT ![w] = [NoItem EXCEPT !.action = "wipe"]]
    /\ wtx' = [wtx EXCEPT ![w] = txSeq + 1]
    /\ wpc' = [wpc EXCEPT ![w] = "committed"]
    /\ wsaved' = [wsaved EXCEPT ![w] = NoRow]
    /\ wmain' = [wmain EXCEPT ![w] = <<>>]
    /\ wlists' = [wlists EXCEPT ![w] = <<>>]
    /\ wlog' = [wlog EXCEPT ![w] = {}]
    /\ werr' = [werr EXCEPT ![w] = "none"]
    /\ UNCHANGED <<pushVars, fnVars, regVars>>
    /\ UNCHANGED <<changeSeq, applied>>

(***************************************************************************)
(* Single calls: functions of the backend and of the API, each applied to  *)
(* arguments drawn from small sets.                                        *)
(***************************************************************************)
MaxListLen == 2

FnIdle == fn = "none" /\ arg = <<>> /\ out = <<>>

\* The call returned; the next one can be made.
FnReturn ==
    /\ fn # "none"
    /\ fn' = "none" /\ arg' = <<>> /\ out' = <<>>
    /\ UNCHANGED <<pushVars, pgVars, regVars>>

(* ---- _update_lists_table on data with two lists ---- *)
ListProps == <<"tags", "nums">>
ListVals == {1, 2}
Lists == UNION {[1..n -> ListVals] : n \in 0..MaxListLen}

\* The data of a row holds any of the list properties.
ListData == UNION {[S -> Lists] : S \in SUBSET {"tags", "nums"}}

EmptyItem == [x \in {} |-> None]

\* key[-1] = f'{key[-1]}{array_sep}'
ArrayKey(prop) == IF prop = "tags" THEN "tags[]" ELSE "nums[]"

\* _flatten(): a list that is not empty becomes (key + '[]', values); an
\* empty list gives nothing.
FlattenLists(data) ==
    LET held == [i \in 1..Len(ListProps) |->
                    IF ListProps[i] \in DOMAIN data /\ data[ListProps[i]] # <<>>
                    THEN << <<ArrayKey(ListProps[i]), data[ListProps[i]]>> >>
                    ELSE <<>>]
    IN Concat(held)

\* itertools.product(*lists), each combination made a dict of key -> value
RECURSIVE Product(_)
Product(ls) ==
    IF ls = <<>> THEN <<EmptyItem>>
    ELSE LET rest == Product(Tail(ls))
             key == Head(ls)[1]
             vals == Head(ls)[2]
         IN Concat([i \in 1..Len(vals) |->
                      [j \in 1..Len(rest) |-> (key :> vals[i]) @@ rest[j]]])

\* flatten([data]) for data of lists of scalars: the combinations of the
\* lists' values, or the one empty dict when no list holds a value.
Flatten(data) == Product(FlattenLists(data))

\* parent_key_for_item(): the parent key the keys of the item share, as a
\* path: the list's own place when the item holds one list's value, the
\* root when it holds values of several lists or none.
ParentKey(item) ==
    IF Cardinality(DOMAIN item) = 1
    THEN <<CHOOSE prop \in {"tags", "nums"} : ArrayKey(prop) \in DOMAIN item>>
    ELSE <<>>

\* _update_lists_table(): data = _get_lists_only(data); if data: insert one
\* row per item of flatten([data]).
ListsInserted(tx, pk, data) ==
    IF DOMAIN data = {} THEN <<>>
    ELSE LET items == Flatten(data)
         IN [i \in 1..Len(items) |->
               [transaction |-> tx, id |-> pk,
                key |-> ParentKey(items[i]), data |-> items[i]]]

CallUpdateListsTable ==
    /\ fn = "none"
    /\ \E data \in ListData :
         /\ arg' = data
         /\ out' = ListsInserted(1, 1, data)
    /\ fn' = "_update_lists_table"
    /\ UNCHANGED <<pushVars, pgVars, regVars>>

(* ---- changes(model, id_, limit, offset) ---- *)
MaxChange == 4

\* The changes tables read: entries with different change values, each of
\* one of two ids.
ChangeTables ==
    UNION {{{[change |-> c, id |-> f[c]] : c \in S} : f \in [S -> {1, 2}]} :
             S \in SUBSET (1..MaxChange)}

\* id_ (None: not given), limit (None: not given) and offset as passed
ChangesIds == {None, 1, 2}
ChangesLimits == {None, 1, 2}
ChangesOffsets == {-2, -1, 0, 1, 2}

\* order_by(table.c.change)
RECURSIVE OrderByChange(_)
OrderByChange(rows) ==
    IF rows = {} THEN <<>>
    ELSE LET first == CHOOSE c \in rows : \A d \in rows : c.change <= d.change
         IN <<first>> \o OrderByChange(rows \ {first})

\* _changes_id(): if id_: where(table.c.id == id_)
ChangesId(rows, id) ==
    IF id # None THEN {c \in rows : c.id = id} ELSE rows

MaxOfChanges(rows) ==
    CHOOSE m \in {c.change : c \in rows} : \A c \in rows : c.change <= m

ChangesOffsetInclusive(rows, offset) ==
    IF offset = 0 THEN rows
    ELSE IF offset > 0 THEN {c \in rows : c.change >= offset}
    ELSE {c \in rows : c.change >= MaxOfChanges(rows) + offset}

\* _changes_offset(): where(table.c.change > offset), or, for a negative
\* offset, where(table.c.change > max(change) - abs(offset)) with the max
\* taken over the query so far.
ChangesOffset(rows, offset) ==
    IF offset = 0 THEN rows
    ELSE IF offset > 0 THEN {c \in rows : c.change > offset}
    ELSE {c \in rows : c.change > MaxOfChanges(rows) + offset}

\* _changes_limit(): if limit: qry.limit(limit)
ChangesLimit(feed, limit) ==
    IF limit # None /\ Len(feed) > limit THEN SubSeq(feed, 1, limit) ELSE feed

Changes(table, id, limit, offset) ==
    ChangesLimit(OrderByChange(ChangesOffset(ChangesId(table, id), offset)),
                 limit)

CallChanges ==
    /\ fn = "none"
    /\ \E table \in ChangeTables, id \in ChangesIds, limit \in ChangesLimits,
          offset \in ChangesOffsets :
         /\ arg' = [table |-> table, id |-> id, limit |-> limit,
                    offset |-> offset]
         /\ out' = Changes(table, id, limit, offset)
    /\ fn' = "changes"
    /\ UNCHANGED <<pushVars, pgVars, regVars>>

(* ---- check_unique_constraint(dtype, prop, value) and the write ---- *)
MaxUniqueIds == 3
UniqueIds == 1..MaxUniqueIds
UniqueActions == {"insert", "update", "patch"}

\* The column of a unique property in main, by _id (None: no such row), as
\* requests that ran one after another leave it.
UniqueTables ==
    {t \in [UniqueIds -> PropVals \cup {None}] :
        \A i, j \in UniqueIds : i # j /\ t[i] # None => t[i] # t[j]}

\* not_found = object()
NotFound == -1

\* PostgreSQL.get(): the scalar of the only row matched, the default when no
\* row matches, MultipleRowsFound when more than one does.
Get(table, matched, default) ==
    IF Cardinality(matched) = 1
    THEN [raised |-> "none", value |-> table[CHOOSE i \in matched : TRUE]]
    ELSE IF Cardinality(matched) = 0
    THEN [raised |-> "none", value |-> default]
    ELSE [raised |-> "MultipleRowsFound", value |-> default]

UniqueConditionAnyRow(table, action, savedId, value) ==
    {i \in UniqueIds : table[i] = value}

\* update, patch: and_(table.c[prop.name] == value, table.c._id != saved._id);
\* otherwise: table.c[prop.name] == value
UniqueCondition(table, action, savedId, value) ==
    IF action \in {"update", "patch"}
    THEN {i \in UniqueIds : table[i] = value /\ i # savedId}
    ELSE {i \in UniqueIds : table[i] = value}

\* if result is not not_found: raise UniqueConstraint(prop)
CheckUniqueConstraint(table, action, savedId, value) ==
    LET result == Get(table, UniqueCondition(table, action, savedId, value),
                      NotFound)
    IN IF result.raised # "none" THEN result.raised
       ELSE IF result.value # NotFound THEN "UniqueConstraint"
       ELSE "none"

\* A write request on a model with a unique property: an insert under a new
\* _id, an update or patch of a saved row.  The check runs before the write; an
\* exception it raises ends the request.
CallCheckUniqueConstraint ==
    /\ fn = "none"
    /\ \E table \in UniqueTables, action \in UniqueActions, id \in UniqueIds,
          value \in PropVals :
         /\ action = "insert" <=> table[id] = None
         /\ LET raised == CheckUniqueConstraint(table, action, id, value)
            IN /\ arg' = [table |-> table, action |-> action, id |-> id,
                          value |-> value]
               /\ out' = [error |-> raised,
                          main |-> IF raised = "none"
                                   THEN [table EXCEPT ![id] = value]
                                   ELSE table]
    /\ fn' = "check_unique_constraint"
    /\ UNCHANGED <<pushVars, pgVars, regVars>>

(* ---- getall(model, query=...) filtering on a property held in a list ---- *)
\* The tags of every row of main
GetallTables == [PgIds -> Lists]
GetallNames == {"eq", "ne"}

\* The lists table the rows' writes filled
ListsTable(table) ==
    UNION {{ListsInserted(1, i, [tags |-> table[i]])[n] :
              n \in 1..Len(ListsInserted(1, i, [tags |-> table[i]]))} :
           i \in PgIds}

\* _getall_query(): eq joins main to the ids of the lists rows whose data
\* holds the value under the property; ne raises NotImplementedError before
\* any condition is built.
GetallQuery(table, name, value) ==
    IF name = "ne"
    THEN [raised |-> "NotImplementedError", rows |-> {}]
    ELSE [raised |-> "none",
          rows |-> {i \in PgIds :
                      \E r \in ListsTable(table) :
                          /\ r.id = i
                          /\ ArrayKey("tags") \in DOMAIN r.data
                          /\ r.data[ArrayKey("tags")] = value}]

CallGetall ==
    /\ fn = "none"
    /\ \E table \in GetallTables, name \in GetallNames, value \in ListVals :
         /\ arg' = [table |-> table, name |-> name, value |-> value]
         /\ out' = GetallQuery(table, name, value)
    /\ fn' = "getall"
    /\ UNCHANGED <<pushVars, pgVars, regVars>>

(* ---- get_table_name(): the name made of a qualified name and its id ---- *)
NAMEDATALEN == 63
MaxTableId == 10000
MaxPad == 56

\* Characters of qualified names: letters, separators and "sz", which stands
\* for the one character U+00DF.
NameChars == {"a", "/", "_", "sz"}
NameTails == UNION {[1..n -> NameChars] : n \in 0..2}
PadLens == {0, MaxPad}
Pad(n) == [i \in 1..n |-> "a"]

\* Qualified names: short ones and ones about as long as an identifier
ModelNames == {Pad(n) \o tail : n \in PadLens, tail \in NameTails}

\* Ids the table registry has allocated
TableIds == {1, 9999, MaxTableId}
TableTypes == {"M", "L", "C"}

\* unidecode.unidecode(name): ASCII folding, U+00DF becomes 'ss'
Unidecode(name) ==
    Concat([i \in 1..Len(name) |->
              IF name[i] = "sz" THEN <<"s", "s">> ELSE <<name[i]>>])

IsAlnum(c) == c \in {"a", "s"}

\* PG_CLEAN_NAME_RE.sub('_', name): every run of other characters becomes
\* one '_'
RECURSIVE CleanName(_)
CleanName(name) ==
    IF name = <<>> THEN <<>>
    ELSE IF IsAlnum(Head(name)) THEN <<Head(name)>> \o CleanName(Tail(name))
    ELSE IF Len(name) > 1 /\ ~IsAlnum(name[2]) THEN CleanName(Tail(name))
    ELSE <<"_">> \o CleanName(Tail(name))

\* name.upper()
Upper(name) ==
    [i \in 1..Len(name) |->
       IF name[i] = "a" THEN "A" ELSE IF name[i] = "s" THEN "S"
       ELSE name[i]]

\* name[:n]
Truncate(name, n) == IF Len(name) > n THEN SubSeq(name, 1, n) ELSE name

\* name.rstrip('_')
RECURSIVE Rstrip(_)
Rstrip(name) ==
    IF name # <<>> /\ name[Len(name)] = "_"
    THEN Rstrip(SubSeq(name, 1, Len(name) - 1))
    ELSE name

DigitChars == <<"0", "1", "2", "3", "4", "5", "6", "7", "8", "9">>

RECURSIVE Decimal(_)
Decimal(n) ==
    IF n < 10 THEN <<DigitChars[n + 1]>>
    ELSE Decimal(n \div 10) \o <<DigitChars[(n % 10) + 1]>>

\* f"{table_id:04d}": at least four digits, zero padded
Format04d(n) ==
    LET digits == Decimal(n)
    IN IF Len(digits) >= 4 THEN digits
       ELSE [i \in 1..(4 - Len(digits)) |-> "0"] \o digits

\* The name of a table of a manifest other than the internal one
GetTableName(name, tableId, tableType) ==
    Rstrip(Truncate(Upper(CleanName(Unidecode(name))), NAMEDATALEN - 6))
        \o <<"_">> \o Format04d(tableId) \o <<tableType>>

\* The tables of two models the registry holds under different ids
CallGetTableName ==
    /\ fn = "none"
    /\ \E name \in ModelNames, other \in ModelNames, id \in TableIds,
          otherId \in TableIds, type \in TableTypes :
         /\ name # other /\ id # otherId
         /\ arg' = [name |-> name, id |-> id, other |-> other,
                    otherId |-> otherId, type |-> type]
         /\ out' = <<GetTableName(name, id, type),
                     GetTableName(other, otherId, type)>>
    /\ fn' = "get_table_name"
    /\ UNCHANGED <<pushVars, pgVars, regVars>>

(* ---- error(request, exc): the handler of a request's exception ---- *)
\* Property names in sorted order; the first two are the schema's.
KeyOrder == <<"a", "b", "x", "y">>
SchemaKeys == {"a", "b"}
DataKeys == SUBSET {KeyOrder[i] : i \in 1..Len(KeyOrder)}

BaseErrors == {"FieldNotInResource", "UniqueConstraint", "ItemDoesNotExist"}

\* The status_code of the classes of errors
StatusCode(type) == IF type = "ItemDoesNotExist" THEN 404 ELSE 400

BaseError(type, property) ==
    [type |-> type, status_code |-> StatusCode(type), property |-> property,
     errors |-> <<>>]

\* sorted(keys)
RECURSIVE Sorted(_)
Sorted(keys) ==
    IF keys = {} THEN <<>>
    ELSE LET i == CHOOSE i \in 1..Len(KeyOrder) :
                    /\ KeyOrder[i] \in keys
                    /\ \A j \in 1..(i - 1) : KeyOrder[j] \notin keys
         IN <<KeyOrder[i]>> \o Sorted(keys \ {KeyOrder[i]})

\* check_no_extra_keys(): unknown = set(data) - set(schema); if unknown: raise
\* MultipleErrors(FieldNotInResource(...) for prop in sorted(unknown))
CheckNoExtraKeys(schema, data) ==
    LET unknown == Sorted(data \ schema)
    IN IF unknown = <<>> THEN <<>>
       ELSE << [type |-> "MultipleErrors", status_code |-> None,
                property |-> "none",
                errors |-> [i \in 1..Len(unknown) |->
                              BaseError("FieldNotInResource", unknown[i])]] >>

\* The exceptions a request ends with: the MultipleErrors of
\* check_no_extra_keys, one error, an HTTPException, an AuthlibHTTPError, any
\* other exception.
Exceptions ==
    {CheckNoExtraKeys(SchemaKeys, data)[1] :
        data \in {d \in DataKeys : d \ SchemaKeys # {}}}
    \cup {BaseError(type, "a") : type \in BaseErrors}
    \cup {[type |-> type, status_code |-> code, property |-> "none",
           errors |-> <<>>] :
            type \in {"HTTPException", "AuthlibHTTPError"},
            code \in {401, 405}}
    \cup {[type |-> "Exception", status_code |-> None, property |-> "none",
           errors |-> <<>>]}

\* error_response(e): the entry of one error
ErrorResponse(e) == [code |-> e.type, property |-> e.property]

ErrorEntriesFirstOnly(exc) == <<ErrorResponse(exc.errors[1])>>

\* errors = [error_response(e) for e in exc.errors]
ErrorEntries(exc) == [i \in 1..Len(exc.errors) |-> ErrorResponse(exc.errors[i])]

\* error(): status code, entries and headers of the response
Error(exc) ==
    IF exc.type = "MultipleErrors"
    THEN [status_code |-> exc.errors[1].status_code,
          errors |-> ErrorEntries(exc), headers |-> "none"]
    ELSE IF exc.type \in BaseErrors
    THEN [status_code |-> exc.status_code, errors |-> <<ErrorResponse(exc)>>,
          headers |-> "exc.headers"]
    ELSE IF exc.type = "HTTPException"
    THEN [status_code |-> exc.status_code,
          errors |-> <<[code |-> exc.type, property |-> "none"]>>,
          headers |-> "none"]
    ELSE IF exc.type = "AuthlibHTTPError"
    THEN [status_code |-> exc.status_code,
          errors |-> <<[code |-> exc.type, property |-> "none"]>>,
          headers |-> "www-authenticate"]
    ELSE [status_code |-> 500,
          errors |-> <<[code |-> exc.type, property |-> "none"]>>,
          headers |-> "none"]

CallError ==
    /\ fn = "none"
    /\ \E exc \in Exceptions :
         /\ arg' = exc
         /\ out' = Error(exc)
    /\ fn' = "error"
    /\ UNCHANGED <<pushVars, pgVars, regVars>>

(* ---- the external SQL reader: getall() and getone() on a source table ---- *)
ExtVals == {1, 2}

\* A row of the source table: the values of its two columns, by position
ExtRows == [1..2 -> ExtVals]

\* A model bound to the source table: its properties, the source column each
\* reads, and how many of the properties (the first npk) are its primary key.
\* A property may have its column's name or one of its own.
ExtModels ==
    {[name |-> "country", props |-> <<"code", "name">>, columns |-> columns,
      npk |-> npk] :
        columns \in {<<"code", "name">>, <<"kodas", "pavadinimas">>},
        npk \in 1..2}

\* The value selected for the primary key: the value of the one column, the
\* list of the values of several.
PkVal(model, row) ==
    [list |-> model.npk > 1, vals |-> [i \in 1..model.npk |-> row[i]]]

\* Source tables in which the primary key tells the rows apart
ExtTables(model) ==
    {t \in SUBSET ExtRows :
        \A r, q \in t : r # q => PkVal(model, r) # PkVal(model, q)}

\* model.model_type()
ModelType(model) == model.name

\* keymap.encode(ns, key): the identifier kept for the key in the namespace
KeymapEncode(ns, key) == [ns |-> ns, key |-> key]

NoKey == [list |-> FALSE, vals |-> <<>>]

\* keymap.decode(ns, id): the key the namespace keeps for the identifier
KeymapDecode(ns, id) == IF id.ns = ns THEN id.key ELSE NoKey

\* generate_pk_for_row() for a model without a base and without required
\* keymap properties: keymap.encode(model.model_type(), pk_val, None)
GeneratePkForRow(model, row) ==
    KeymapEncode(ModelType(model), PkVal(model, row))

\* getall(): every row of the table, with the _id made for it
ExtGetall(model, table) ==
    {[_id |-> GeneratePkForRow(model, row), row |-> row] : row \in table}

\* table.c.get(column_name): the position of the column of that name, None
\* when the table has none
ColumnGet(model, name) ==
    IF \E j \in 1..2 : model.columns[j] = name
    THEN CHOOSE j \in 1..2 : model.columns[j] = name
    ELSE None

\* query[pk.name] = _id[index] for the pkeys of a list, query[pkeys[0].name]
\* = _id otherwise
GetoneQuery(model, key) ==
    IF key.list
    THEN [i \in 1..model.npk |-> [name |-> model.props[i], value |-> key.vals[i]]]
    ELSE <<[name |-> model.props[1], value |-> key.vals[1]]>>

\* qry.where(id_column == column_value) for every item of the query; with
\* id_column None the comparison is the constant False
GetoneWhere(model, query, row) ==
    \A i \in 1..Len(query) :
        /\ ColumnGet(model, query[i].name) # None
        /\ row[ColumnGet(model, query[i].name)] = query[i].value

\* getone(): decode the id, select by the key, fetchone(), and read
\* row[field] for every property of the model
ExtGetone(model, table, id) ==
    LET key == KeymapDecode(model.name, id)
        rows == {r \in table : GetoneWhere(model, GetoneQuery(model, key), r)}
    IN IF rows = {}
       THEN [raised |-> "TypeError", key |-> key, data |-> <<>>]
       ELSE IF \E i \in 1..2 : ColumnGet(model, model.props[i]) = None
       THEN [raised |-> "NoSuchColumnError", key |-> key, data |-> <<>>]
       ELSE [raised |-> "none", key |-> key,
             data |-> LET row == CHOOSE r \in rows : TRUE
                      IN [i \in 1..2 |-> row[ColumnGet(model, model.props[i])]]]

\* getone() with the _id of a row that getall() yielded
CallGetone ==
    /\ fn = "none"
    /\ \E model \in ExtModels :
         \E table \in ExtTables(model) :
           \E item \in ExtGetall(model, table) :
             /\ arg' = [model |-> model, table |-> table, row |-> item.row,
                        id |-> item._id]
             /\ out' = ExtGetone(model, table, item._id)
    /\ fn' = "getone"
    /\ UNCHANGED <<pushVars, pgVars, regVars>>

(* ---- check_unique_constraint() for the property _id ---- *)
ReservedFields == {"_id", "_type", "_revision"}

\* The column _id of main
IdColumn(table) ==
    [i \in UniqueIds |-> IF table[i] # None THEN i ELSE None]

\* The branches of check_unique_constraint in their order: update and patch
\* take the first; the one that returns for a reserved field of a PATCH
\* comes after it.
CheckUniqueConstraintOf(prop, table, action, savedId, value) ==
    LET column == IF prop = "_id" THEN IdColumn(table) ELSE table
    IN IF action \in {"update", "patch"}
       THEN CheckUniqueConstraint(column, action, savedId, value)
       ELSE IF action = "patch" /\ prop \in ReservedFields
       THEN "none"
       ELSE CheckUniqueConstraint(column, action, savedId, value)

\* A request that carries _id: an insert, or an update or patch of a saved
\* row, checked for the property _id.
CallCheckUniqueId ==
    /\ fn = "none"
    /\ \E table \in UniqueTables, action \in UniqueActions, id \in UniqueIds,
          value \in UniqueIds :
         /\ action = "insert" <=> table[id] = None
         /\ arg' = [table |-> table, action |-> action, id |-> id,
                    value |-> value]
         /\ out' = CheckUniqueConstraintOf("_id", table, action, id, value)
    /\ fn' = "check_unique_constraint(_id)"
    /\ UNCHANGED <<pushVars, pgVars, regVars>>

(* ---- handle_ref_key_assignment(keymap, value, prop) ---- *)
\* prop.level (None: not given), the number of refprops of the reference,
\* the number of primary-key properties of the property's model
RefLevels == {None, 1, 3, 4}
RefpropCounts == 0..2
PkeyCounts == 0..1

\* {'_id': keymap.encode(prop.dtype.model.model_type(), value)}
RefById(value) == [key |-> "_id", encoded |-> TRUE, value |-> value]

\* {name: value}
RefByName(name, value) == [key |-> name, encoded |-> FALSE, value |-> value]

HandleRefKeyAssignment(level, refprops, unknownPk, pkeys, value) ==
    IF level = None \/ level > 3
    THEN [raised |-> "none", val |-> RefById(value)]
    ELSE IF refprops > 1 /\ ~unknownPk
    THEN [raised |-> "NotImplementedFeature", val |-> RefById(None)]
    ELSE IF refprops = 1
    THEN [raised |-> "none", val |-> RefByName("refprops[0]", value)]
    ELSE IF ~unknownPk /\ pkeys > 0
    THEN [raised |-> "none", val |-> RefByName("pkeys[0]", value)]
    ELSE [raised |-> "none", val |-> RefById(value)]

\* The function called with a keymap, a value and a property
CallHandleRefKeyAssignment ==
    /\ fn = "none"
    /\ \E level \in RefLevels, refprops \in RefpropCounts,
          unknownPk \in BOOLEAN, pkeys \in PkeyCounts, value \in ExtVals :
         /\ arg' = [level |-> level, refprops |-> refprops,
                    unknownPk |-> unknownPk, pkeys |-> pkeys, value |-> value]
         /\ out' = HandleRefKeyAssignment(level, refprops, unknownPk, pkeys,
                                          value)
    /\ fn' = "handle_ref_key_assignment"
    /\ UNCHANGED <<pushVars, pgVars, regVars>>

\* The call in getall() for a selected reference property:
\* handle_ref_key_assignment(keymap, env, val, sel.prop.dtype), four
\* positional arguments for three parameters, which Python refuses.
CallGetallRef ==
    /\ fn = "none"
    /\ \E level \in RefLevels, refprops \in RefpropCounts,
          unknownPk \in BOOLEAN, pkeys \in PkeyCounts, value \in ExtVals :
         /\ arg' = [level |-> level, refprops |-> refprops,
                    unknownPk |-> unknownPk, pkeys |-> pkeys, value |-> value]
         /\ out' = [raised |-> "TypeError", val |-> RefById(None)]
    /\ fn' = "getall(ref)"
    /\ UNCHANGED <<pushVars, pgVars, regVars>>

(* ---- getall(model, query=..., sort=...): main table or lists table ---- *)
\* A model's top-level properties, in declaration order, each a string or an
\* array of strings; a property's place is its dotted name inside its model.
PropNames == <<"title", "tags">>
Dtypes == {"String", "Array"}
Models == [{PropNames[i] : i \in 1..Len(PropNames)} -> Dtypes]
Manifests == UNION {[1..n -> Models] : n \in 1..2}
GetallParts == {"query", "sort"}

\* _find_props_in_lists(model): the places that lie under an array
FindPropsInLists(model) ==
    SelectSeq(PropNames, LAMBDA p : model[p] = "Array")

\* _has_lists(model): some property is an array
HasLists(model) == \E p \in DOMAIN model : model[p] = "Array"

\* prepare(backend, manifest): every model's places are appended to the one
\* list backend.props_in_lists.
RECURSIVE PreparedPropsInLists(_)
PreparedPropsInLists(manifest) ==
    IF manifest = <<>> THEN <<>>
    ELSE PreparedPropsInLists(SubSeq(manifest, 1, Len(manifest) - 1))
           \o FindPropsInLists(manifest[Len(manifest)])

\* The places the code looks a property up in: the backend's list
PropsInListsOf(manifest, model) ==
    {PreparedPropsInLists(manifest)[i] :
        i \in 1..Len(PreparedPropsInLists(manifest))}

\* _getall_query() and _getall_order_by(): a key whose place is in
\* backend.props_in_lists is read from table.lists.c.data, any other key from
\* table.main.c; table.lists is None for a model without arrays.
GetallEvaluates(manifest, i, part, key) ==
    IF key \in PropsInListsOf(manifest, manifest[i])
    THEN IF HasLists(manifest[i])
         THEN [raised |-> "none", against |-> "lists"]
         ELSE [raised |-> "AttributeError", against |-> "lists"]
    ELSE [raised |-> "none", against |-> "main"]

CallGetallPrepared ==
    /\ fn = "none"
    /\ \E manifest \in Manifests, part \in GetallParts :
         \E i \in 1..Len(manifest), key \in DOMAIN manifest[1] :
            /\ arg' = [manifest |-> manifest, model |-> i, part |-> part,
                       key |-> key]
            /\ out' = GetallEvaluates(manifest, i, part, key)
    /\ fn' = "getall(prepared)"
    /\ UNCHANGED <<pushVars, pgVars, regVars>>

(* ---- getall(model, sort=...) ---- *)
\* No sort, or one key with its direction: _id is a column of main, tags a
\* property held in a list.
NoSort == <<>>
Sorts == {NoSort} \cup {<<d, key>> : d \in {"+", "-"}, key \in {"_id", "tags"}}

\* The data each row of main was written with: no list at all, or the list
\* tags, empty or not
SortTables == [PgIds -> {data \in ListData : DOMAIN data \subseteq {"tags"}}]

\* The lists table the rows' writes filled
SortListsTable(table) ==
    UNION {{ListsInserted(1, i, table[i])[n] :
              n \in 1..Len(ListsInserted(1, i, table[i]))} :
           i \in PgIds}

\* table.lists.c.data[prop.place] of a row of the lists table, NULL when the
\* row's data has no such key
SortValue(r, key) ==
    IF ArrayKey(key) \in DOMAIN r.data THEN r.data[ArrayKey(key)] ELSE None

\* The subquery of a key held in a list: of every id in the lists table the
\* row numbered 1 when the id's rows are ordered by the value, ascending for
\* '+' and descending for '-'.
FirstByValue(lst, d, key) ==
    {r \in lst :
        \A o \in lst : o.id = r.id =>
            IF d = "+" THEN SortValue(r, key) <= SortValue(o, key)
            ELSE SortValue(r, key) >= SortValue(o, key)}

\* The rows of the alias, as (id, value): ids with no row in the lists table
\* have none.
SortAlias(table, d, key) ==
    [i \in {r.id : r \in SortListsTable(table)} |->
        SortValue(CHOOSE r \in FirstByValue(SortListsTable(table), d, key) :
                      r.id = i, key)]

\* getall() with _getall_order_by(): a key in props_in_lists adds
\* (alias, main._id == alias.id) to joins and main is joined to it with
\* join(); any other key orders by the column of main.  rows are the ids
\* selected, by the value they are ordered by.
GetallSorted(table, sort) ==
    IF sort = NoSort THEN [i \in PgIds |-> None]
    ELSE IF sort[2] = "tags" THEN SortAlias(table, sort[1], sort[2])
    ELSE [i \in PgIds |-> i]

CallGetallSorted ==
    /\ fn = "none"
    /\ \E table \in SortTables, sort \in Sorts :
         /\ arg' = [table |-> table, sort |-> sort]
         /\ out' = GetallSorted(table, sort)
    /\ fn' = "getall(sort)"
    /\ UNCHANGED <<pushVars, pgVars, regVars>>

(***************************************************************************)
(* The table registry: get_table_name() called by several processes        *)
(***************************************************************************)
MaxCallers == 2
MaxCalls == 4

Callers == 1..MaxCallers
QualifiedNames == {"country", "city"}

RegistryQuiet ==
    /\ registry = {} /\ tableSeq = 0 /\ calls = 0
    /\ tpc = [c \in Callers |-> "idle"]
    /\ tname = [c \in Callers |-> "none"]
    /\ results = {}

RowsNamed(name) == {r \in registry : r.name = name}

\* backend.engine.execute(table.insert(), name=name);
\* table_id = result.inserted_primary_key[0]
Register(c) ==
    [id |-> tableSeq + 1,
     rows |-> registry \cup {[id |-> tableSeq + 1, name |-> tname[c]]}]

\* table_id = backend.get(backend.engine, table.c._id, table.c.name == name,
\* default=None): a statement of its own on the engine.  A row found is the
\* id; more than one row raises MultipleRowsFound.
GetTableId(c) ==
    /\ tpc[c] = "idle" /\ calls < MaxCalls
    /\ calls' = calls + 1
    /\ \E name \in QualifiedNames :
         /\ tname' = [tname EXCEPT ![c] = name]
         /\ IF Cardinality(RowsNamed(name)) = 1
            THEN /\ results' = results \cup
                       {[name |-> name, raised |-> "none",
                         id |-> (CHOOSE r \in RowsNamed(name) : TRUE).id]}
                 /\ tpc' = tpc
            ELSE IF RowsNamed(name) = {}
            THEN /\ tpc' = [tpc EXCEPT ![c] = "missing"]
                 /\ results' = results
            ELSE /\ results' = results \cup
                       {[name |-> name, raised |-> "MultipleRowsFound",
                         id |-> None]}
                 /\ tpc' = tpc
    /\ UNCHANGED <<registry, tableSeq>>
    /\ UNCHANGED <<pushVars, pgVars, fnVars>>

\* if table_id is None: insert the name, in a statement of its own, and take
\* the new row's _id.
InsertTableId(c) ==
    /\ tpc[c] = "missing"
    /\ LET new == Register(c)
       IN /\ registry' = new.rows
          /\ tableSeq' = new.id
          /\ results' = results \cup
                {[name |-> tname[c], raised |-> "none", id |-> new.id]}
    /\ tpc' = [tpc EXCEPT ![c] = "idle"]
    /\ UNCHANGED <<calls, tname>>
    /\ UNCHANGED <<pushVars, pgVars, fnVars>>

(***************************************************************************)
(* The push pipeline: states and steps                                     *)
(***************************************************************************)
PipelineIdle ==
    /\ state = FALSE /\ stop_row = 0 /\ chunk_size = 1
    /\ stop_time = FALSE /\ timeup = FALSE
    /\ pc = "idle" /\ pos = 1
    /\ saved = [i \in Ids |-> None] /\ snapped = FALSE
    /\ taken = 0 /\ chunk = PrefixLen /\ ready = <<>> /\ pending = <<>>
    /\ resp = <<>> /\ k = 1
    /\ posts = <<>> /\ entered = <<>> /\ dropped = {} /\ committed = {}
    /\ returned = [i \in Ids |-> None]
    /\ sentCount = [i \in Ids |-> 0]
    /\ errors = FALSE /\ nostate = FALSE
    /\ before = pstate /\ prevErr = FALSE /\ prevCut = FALSE

\* One push invocation over any source and any state file earlier runs may
\* have left: an entry holds the row's present checksum or that of an older
\* version of the row.
Init ==
    /\ source \in SUBSET Ids
    /\ pstate \in {f \in [Ids -> {None, StaleSum} \cup {Checksum(PushRow(i)) : i \in Ids}] :
                      \A i \in Ids : f[i] \in {None, StaleSum, Checksum(PushRow(i))}}
    /\ run = 0
    /\ PipelineIdle
    /\ PgQuiet
    /\ FnIdle
    /\ RegistryQuiet

\* Repeated push invocations over one source, starting with an empty state file.
InitResume ==
    /\ source \in SUBSET Ids
    /\ pstate = [i \in Ids |-> None]
    /\ run = 0
    /\ PipelineIdle
    /\ PgQuiet
    /\ FnIdle
    /\ RegistryQuiet

(* ---- push(): set up the pipeline ---- *)
Setup(st, sr, cs, tm) ==
    /\ run' = run + 1
    /\ state' = st /\ stop_row' = sr /\ chunk_size' = cs
    /\ stop_time' = tm /\ timeup' = FALSE
    /\ pc' = "pull" /\ pos' = 1
    /\ saved' = [i \in Ids |-> None] /\ snapped' = FALSE
    /\ taken' = 0 /\ chunk' = PrefixLen /\ ready' = <<>> /\ pending' = <<>>
    /\ resp' = <<>> /\ k' = 1
    /\ posts' = <<>> /\ entered' = <<>> /\ dropped' = {} /\ committed' = {}
    /\ nostate' = (nostate \/ ~st)
    /\ errors' = FALSE
    /\ before' = pstate
    /\ prevErr' = (prevErr \/ errors)
    /\ prevCut' = (prevCut \/ (run > 0 /\ (stop_row # 0 \/ timeup)))
    /\ UNCHANGED <<source, pstate, returned, sentCount>>

StartRun ==
    /\ pc = "idle"
    /\ \E st \in BOOLEAN, sr \in StopRows, cs \in ChunkSizes, tm \in BOOLEAN :
          Setup(st, sr, cs, tm)
    /\ UNCHANGED <<pgVars, fnVars, regVars>>

\* The next invocation, after the previous one returned.
Rerun ==
    /\ pc = "done" /\ run < MaxRuns
    /\ \E st \in BOOLEAN, sr \in StopRows, cs \in ChunkSizes, tm \in BOOLEAN :
          Setup(st, sr, cs, tm)
    /\ UNCHANGED <<pgVars, fnVars, regVars>>

(* ---- one row pulled through check, islice and the batch loop ---- *)
SourceLeft == {i \in source : i >= pos}
Exhausted == SourceLeft = {} \/ timeup \/ (stop_row # 0 /\ taken = stop_row)

\* for row in rows: ... chunk += ...; ready.append(row)
Batch(row) ==
    /\ taken' = taken + 1
    /\ entered' = Append(entered, row.id)
    /\ IF NeedFlush(ready, chunk, RowLen(row), chunk_size)
       THEN /\ pc' = "post"
            /\ pending' = <<row>>
            /\ UNCHANGED <<chunk, ready>>
       ELSE /\ chunk' = Grow(ready, chunk, RowLen(row))
            /\ ready' = Append(ready, row)
            /\ UNCHANGED <<pc, pending>>

ReadRow ==
    /\ pc = "pull" /\ ~Exhausted
    /\ LET id == CHOOSE i \in SourceLeft : \A j \in SourceLeft : i <= j
           snapshot == IF snapped THEN saved ELSE pstate
           row == IF state THEN Checked(PushRow(id), snapshot) ELSE PushRow(id)
       IN /\ pos' = id + 1
          /\ IF state
             THEN /\ saved' = snapshot /\ snapped' = TRUE
                  /\ dropped' = IF pstate[id] = Checksum(row)
                                THEN dropped \cup {id} ELSE dropped
             ELSE UNCHANGED <<saved, snapped, dropped>>
          /\ IF state /\ NothingChanged(row, snapshot)
             THEN UNCHANGED <<taken, entered, pc, pending, chunk, ready>>
             ELSE Batch(row)
    /\ UNCHANGED <<source, pstate, run, state, stop_row, chunk_size, stop_time,
                   timeup, before, prevErr, prevCut, resp, k,
                   posts, committed, returned, sentCount, errors, nostate>>
    /\ UNCHANGED <<pgVars, fnVars, regVars>>

\* _add_stop_time: after a row was yielded, time.time() - start > stop ends
\* the stream of rows (after the last row the break and the end of the rows
\* are the same to the pipeline).
TimeIsUp ==
    /\ pc = "pull" /\ stop_time /\ ~timeup /\ pos > 1 /\ SourceLeft # {}
    /\ timeup' = TRUE
    /\ UNCHANGED <<source, pstate, run, state, stop_row, chunk_size, stop_time,
                   before, prevErr, prevCut, pc, pos, saved, snapped, taken,
                   chunk, ready, pending, resp, k, posts, entered, dropped,
                   committed, returned, sentCount, errors, nostate>>
    /\ UNCHANGED <<pgVars, fnVars, regVars>>

\* The rows are exhausted: if ready: send what is left; else the generators end
\* and next(rows) raises StopIteration.
EndOfRows ==
    /\ pc = "pull" /\ Exhausted
    /\ pc' = IF ready # <<>> THEN "post" ELSE "done"
    /\ UNCHANGED <<source, pstate, run, state, stop_row, chunk_size, stop_time,
                   timeup, before, prevErr, prevCut, pos, saved,
                   snapped, taken, chunk, ready, pending, resp, k, posts,
                   entered, dropped, committed, returned, sentCount, errors,
                   nostate>>
    /\ UNCHANGED <<pgVars, fnVars, regVars>>

(* ---- _send_and_receive ---- *)
Posted(outcome) ==
    /\ posts' = Append(posts, [rows |-> ready,
                               len |-> chunk + SuffixLen,
                               outcome |-> outcome])
    /\ sentCount' = [i \in Ids |->
                       IF i \in ReadyIds THEN sentCount[i] + 1 ELSE sentCount[i]]

\* session.post raises, the status is not 2xx or the body is not the expected
\* JSON: the error is logged and no row is yielded.
PostFails ==
    /\ pc = "post"
    /\ Posted("failed")
    /\ errors' = TRUE
    /\ pc' = "flushed"
    /\ UNCHANGED <<source, pstate, run, state, stop_row, chunk_size, stop_time,
                   timeup, before, prevErr, prevCut, pos, saved,
                   snapped, taken, chunk, ready, pending, resp, k, entered,
                   dropped, committed, returned, nostate>>
    /\ UNCHANGED <<pgVars, fnVars, regVars>>

\* The remote answers; assert len(rows) == len(data).
PostAnswered ==
    /\ pc = "post"
    /\ \E data \in {RightAnswer(ready)} \cup WrongAnswers(ready) :
         /\ Posted(IF data = RightAnswer(ready) THEN "ok" ELSE "mismatch")
         /\ resp' = data
         /\ k' = 1
         /\ IF Len(data) = Len(ready)
            THEN pc' = "recv" /\ UNCHANGED errors
            ELSE pc' = "raised" /\ errors' = TRUE
    /\ UNCHANGED <<source, pstate, run, state, stop_row, chunk_size, stop_time,
                   timeup, before, prevErr, prevCut, pos, saved,
                   snapped, taken, chunk, ready, pending, entered, dropped,
                   committed, returned, nostate>>
    /\ UNCHANGED <<pgVars, fnVars, regVars>>

IdsMatchUnchecked(sent, recv) == TRUE

\* assert sent.data['_id'] == recv['_id']
IdsMatch(sent, recv) == sent.id = recv.id

\* for sent, recv in zip(rows, data): assert ids equal; yield sent, which
\* _save_push_state writes to the state table before the driver gets it.
Receive ==
    /\ pc = "recv" /\ k <= Len(ready)
    /\ LET sent == ready[k]
           recv == resp[k]
       IN IF ~IdsMatch(sent, recv)
          THEN /\ pc' = "raised" /\ errors' = TRUE
               /\ UNCHANGED <<pstate, committed, returned, k>>
          ELSE /\ returned' = [returned EXCEPT ![sent.id] = recv.revision]
               /\ k' = k + 1
               /\ IF ~state
                  THEN UNCHANGED <<pstate, committed, pc, errors>>
                  ELSE IF SaveRaises(pstate, sent)
                       THEN /\ pc' = "raised" /\ errors' = TRUE
                            /\ UNCHANGED <<pstate, committed>>
                       ELSE /\ pstate' = SaveRow(pstate, sent)
                            /\ committed' = committed \cup {sent.id}
                            /\ UNCHANGED <<pc, errors>>
    /\ UNCHANGED <<source, run, state, stop_row, chunk_size, stop_time, timeup,
                   before, prevErr, prevCut, pos, saved,
                   snapped, taken, chunk, ready, pending, resp, posts, entered,
                   dropped, sentCount, nostate>>
    /\ UNCHANGED <<pgVars, fnVars, regVars>>

\* All rows of the batch were yielded.
Received ==
    /\ pc = "recv" /\ k > Len(ready)
    /\ pc' = "flushed"
    /\ UNCHANGED <<source, pstate, run, state, stop_row, chunk_size, stop_time,
                   timeup, before, prevErr, prevCut, pos, saved,
                   snapped, taken, chunk, ready, pending, resp, k, posts,
                   entered, dropped, committed, returned, sentCount, errors,
                   nostate>>
    /\ UNCHANGED <<pgVars, fnVars, regVars>>

\* chunk = prefix; ready = []; then the row that did not fit is buffered.  After
\* the final flush the generator ends.
AfterFlush ==
    /\ pc = "flushed"
    /\ IF pending = <<>>
       THEN /\ pc' = "done"
            /\ chunk' = PrefixLen /\ ready' = <<>>
            /\ UNCHANGED pending
       ELSE /\ pc' = "pull"
            /\ chunk' = Grow(<<>>, PrefixLen, RowLen(pending[1]))
            /\ ready' = <<pending[1]>>
            /\ pending' = <<>>
    /\ resp' = <<>> /\ k' = 1
    /\ UNCHANGED <<source, pstate, run, state, stop_row, chunk_size, stop_time,
                   timeup, before, prevErr, prevCut, pos, saved,
                   snapped, taken, posts, entered, dropped, committed,
                   returned, sentCount, errors, nostate>>
    /\ UNCHANGED <<pgVars, fnVars, regVars>>

(* ---- the driver loop of push() ---- *)
\* except Exception: log.exception(...); the next next(rows) on the generators,
\* which the exception closed, raises StopIteration.
NextRowsResumes(at) == IF at = "raised" THEN "pull" ELSE at

\* next(rows) after the handler logged: rows is a generator and the exception
\* finished it, so StopIteration ends the loop.
NextRows(at) == IF at = "raised" THEN "done" ELSE at

DriverLogs ==
    /\ pc = "raised"
    /\ pc' = NextRows(pc)
    /\ UNCHANGED <<source, pstate, run, state, stop_row, chunk_size, stop_time,
                   timeup, before, prevErr, prevCut, pos, saved,
                   snapped, taken, chunk, ready, pending, resp, k, posts,
                   entered, dropped, committed, returned, sentCount, errors,
                   nostate>>
    /\ UNCHANGED <<pgVars, fnVars, regVars>>

Next ==
    \/ StartRun
    \/ ReadRow
    \/ TimeIsUp
    \/ EndOfRows
    \/ PostFails
    \/ PostAnswered
    \/ Receive
    \/ Received
    \/ AfterFlush
    \/ DriverLogs

Spec == Init /\ [][Next]_vars

\* push() is one thread: while a step of it can be taken, it is taken.
SpecDriver == Init /\ [][Next]_vars /\ WF_vars(Next)

NextResume ==
    \/ StartRun
    \/ Rerun
    \/ ReadRow
    \/ TimeIsUp
    \/ EndOfRows
    \/ PostFails
    \/ PostAnswered
    \/ Receive
    \/ Received
    \/ AfterFlush
    \/ DriverLogs

SpecResume == InitResume /\ [][NextResume]_vars

(* ---- requests against the internal backend ---- *)
InitPg ==
    /\ source = {} /\ pstate = [i \in Ids |-> None] /\ run = 0
    /\ PipelineIdle
    /\ PgQuiet
    /\ FnIdle
    /\ RegistryQuiet

NextPg ==
    \/ \E w \in Writers : PgBegin(w)
    \/ \E w \in Writers : PgRead(w)
    \/ \E w \in Writers : PgInsert(w)
    \/ \E w \in Writers : PgUpdate(w)
    \/ \E w \in Writers : PgDelete(w)
    \/ \E w \in Writers : PgChangelog(w)
    \/ \E w \in Writers : PgCommit(w)
    \/ \E w \in Writers : PgCancel(w)
    \/ \E w \in Writers : PgWipe(w)

SpecPg == InitPg /\ [][NextPg]_vars

(* ---- the internal backend, its property val declared unique ---- *)
\* The column val of main as the request's connection reads it: the
\* committed rows.
UniqueColumn ==
    [i \in UniqueIds |-> IF i \in PgIds THEN main[i]["val"] ELSE None]

\* The reads a write request makes before its write: getone() for data.saved,
\* then check_unique_constraint() for the value of val in the patch.
PgCheck(w) ==
    /\ wpc[w] = "begun"
    /\ IF /\ wop[w].val # None
          /\ wop[w].action = "insert" \/ main[wop[w].id] # NoRow
          /\ CheckUniqueConstraint(UniqueColumn, wop[w].action, wop[w].id,
                                   wop[w].val) # "none"
       THEN /\ Rollback(w, CheckUniqueConstraint(UniqueColumn, wop[w].action,
                                                 wop[w].id, wop[w].val))
            /\ UNCHANGED wsaved
            /\ UNCHANGED <<pushVars, fnVars, regVars>>
            /\ UNCHANGED <<main, lists, changes, txns, txSeq, changeSeq, ops,
                           wop, wtx, applied>>
       ELSE PgRead(w)

NextUnique ==
    \/ \E w \in Writers : PgBegin(w)
    \/ \E w \in Writers : PgCheck(w)
    \/ \E w \in Writers : PgInsert(w)
    \/ \E w \in Writers : PgUpdate(w)
    \/ \E w \in Writers : PgDelete(w)
    \/ \E w \in Writers : PgChangelog(w)
    \/ \E w \in Writers : PgCommit(w)

SpecUnique == InitPg /\ [][NextUnique]_vars

(* ---- single calls ---- *)
InitFn ==
    /\ source = {} /\ pstate = [i \in Ids |-> None] /\ run = 0
    /\ PipelineIdle
    /\ PgQuiet
    /\ FnIdle
    /\ RegistryQuiet

NextFn ==
    \/ CallUpdateListsTable
    \/ CallChanges
    \/ CallCheckUniqueConstraint
    \/ CallGetall
    \/ CallGetTableName
    \/ CallError
    \/ CallGetone
    \/ CallCheckUniqueId
    \/ CallHandleRefKeyAssignment
    \/ CallGetallRef
    \/ CallGetallPrepared
    \/ CallGetallSorted
    \/ FnReturn

SpecFn == InitFn /\ [][NextFn]_vars

(* ---- calls of get_table_name ---- *)
InitTable ==
    /\ source = {} /\ pstate = [i \in Ids |-> None] /\ run = 0
    /\ PipelineIdle
    /\ PgQuiet
    /\ FnIdle
    /\ RegistryQuiet

NextTable ==
    \/ \E c \in Callers : GetTableId(c)
    \/ \E c \in Callers : InsertTableId(c)

SpecTable == InitTable /\ [][NextTable]_vars

(***************************************************************************)
(* Claims about the push pipeline                                          *)
(***************************************************************************)
PendingIds == {pending[i].id : i \in 1..Len(pending)}
EnteredIds == {entered[i] : i \in 1..Len(entered)}

\* C1: in a run with a state store, a source row whose checksum equals the
\* checksum the state table holds for its _id when the row is read is dropped
\* before batching: it is in no POST body of the run, it is not buffered, and
\* its state entry is not written.
C1_UnchangedRowDropped ==
    state =>
        \A id \in dropped :
            /\ id \notin PostedIds \cup ReadyIds \cup PendingIds
            /\ id \notin committed
            /\ pstate[id] = before[id]

C1_Witness ==
    /\ pc = "done" /\ state /\ dropped # {} /\ committed # {}

\* C2 (as claimed): every row committed to the state table after an accepted
\* POST has, as the revision stored for its id, the _revision the remote
\* returned for that _id.
C2_StateHoldsRemoteRevision ==
    \A id \in committed : pstate[id] = returned[id]

\* C3 (as claimed): when the response does not match the batch (length or
\* _id at some position), no row of that batch is committed to the state table.
C3_MismatchCommitsNothing ==
    \A i \in 1..Len(posts) :
        posts[i].outcome = "mismatch" => BodyIds(posts[i]) \cap committed = {}

\* C4 (as claimed): when the POST of a batch fails, every row of the batch is
\* recorded in the state table.
C4_FailedPostRecorded ==
    (state /\ pc = "done") =>
        \A i \in 1..Len(posts) :
            posts[i].outcome = "failed" =>
                \A id \in BodyIds(posts[i]) : pstate[id] # None

\* C5 (as claimed): the second of two push runs over an unchanged source, the
\* first of which read the whole source and had no errors, sends no POST.
C5_SecondRunSendsNothing ==
    (run = 2 /\ ~prevErr /\ ~prevCut) => posts = <<>>

\* C6: with a state store in every run and a remote that accepts every batch,
\* no row is POSTed twice over all runs; when a run ends the state table holds
\* exactly the rows sent so far; the rows a run skips are rows sent by earlier
\* runs; and when a run without --stop-row (and not cut by --stop-time) ends,
\* every source row has been POSTed exactly once.
C6_ResumeDeliversOnce ==
    (~nostate /\ ~prevErr /\ ~errors) =>
        /\ \A id \in Ids : sentCount[id] <= 1
        /\ \A id \in dropped : sentCount[id] = 1 /\ id \notin EnteredIds
        /\ pc = "done" =>
              \A id \in Ids : (sentCount[id] = 1) <=> (pstate[id] # None)
        /\ (pc = "done" /\ stop_row = 0 /\ ~timeup) =>
              \A id \in source : sentCount[id] = 1

C6_Witness ==
    /\ run = 2 /\ pc = "done" /\ stop_row = 0 /\ ~timeup
    /\ ~nostate /\ ~prevErr /\ ~errors /\ prevCut
    /\ dropped # {} /\ posts # <<>>

\* C7: no POST body is empty, and when a run whose POSTs were all accepted
\* ends, the POST bodies, in the order sent, hold exactly the rows that
\* entered the batch stage, each once and in their input order, whatever
\* the chunk size.
C7_ChunkingKeepsRows ==
    /\ \A i \in 1..Len(posts) : posts[i].rows # <<>>
    /\ (pc = "done" /\ ~errors) => PostedSeq = entered

C7_Witness ==
    /\ pc = "done" /\ ~errors /\ Len(posts) = 2 /\ Len(entered) = 3

\* C8 (as claimed): for every id that has a state entry when the run starts
\* and is not read from the source, a complete run with a state store sends a
\* delete operation with _where eq(_id, id).
C8_DeleteEmitted ==
    (pc = "done" /\ state /\ ~errors /\ ~timeup /\ stop_row = 0) =>
        \A id \in Ids \ source :
            before[id] # None =>
                \E i \in 1..Len(posts) : \E j \in 1..Len(posts[i].rows) :
                    posts[i].rows[j].op = "delete" /\ posts[i].rows[j].where = id

\* The state table is written in this step.
StateWritten == pstate' # pstate

\* The step writes the entry of the row at position k of the body of the
\* last POST, whose answer was received, has as many items as the body has
\* rows and lists the row's _id at position k.
WrittenAfterAnswer ==
    /\ pc = "recv" /\ posts # <<>>
    /\ posts[Len(posts)].outcome # "failed"
    /\ posts[Len(posts)].rows = ready
    /\ Len(resp) = Len(ready)
    /\ k \in 1..Len(ready)
    /\ resp[k].id = ready[k].id
    /\ pstate' = [pstate EXCEPT ![ready[k].id] = ready[k].rev]
    /\ ready[k].rev = Checksum(ready[k])

\* Rows that are buffered, or wait for the flush, and are in no POST body of
\* the run
Unsent ==
    {ready[i] : i \in {j \in 1..Len(ready) : ready[j].id \notin PostedIds}}
    \cup {pending[i] : i \in 1..Len(pending)}

\* C24: the state table never runs ahead of the remote.  An entry (id,
\* checksum) is written only after a POST whose body holds the row with that
\* id and checksum got an answer that lists the id at the row's position; a
\* row that was buffered and not sent has no such entry.
C24_StateBehindRemote ==
    /\ [][StateWritten => WrittenAfterAnswer]_vars
    /\ [](state => \A row \in Unsent : pstate[row.id] # row.rev)

\* One row has been written to the state table and another is buffered,
\* not sent yet.
C24_Witness ==
    /\ state /\ pc = "pull"
    /\ committed # {}
    /\ Unsent # {}
    /\ \E i \in committed : pstate[i] = Checksum(PushRow(i))

\* C25 (as claimed): every POST body that holds two or more rows is at most
\* chunk_size characters long, the prefix, the rows, the commas between them
\* and the suffix counted; only a body of a single row may be longer.
C25_BodyWithinChunkSize ==
    \A i \in 1..Len(posts) :
        Len(posts[i].rows) >= 2 => posts[i].len <= chunk_size

\* C25 as amended: a POST body that holds two or more rows is at most
\* chunk_size + 1 characters long: the test made before a row is added to
\* rows already buffered counts the buffer, the row and the suffix, not the
\* comma that joins the row.  A body of a single row may have any length.
C25_BodyWithinChunkSizePlusComma ==
    \A i \in 1..Len(posts) :
        Len(posts[i].rows) >= 2 => posts[i].len <= chunk_size + 1

\* A POST body of two rows that is one character longer than chunk_size.
C25_Witness ==
    \E i \in 1..Len(posts) :
        Len(posts[i].rows) = 2 /\ posts[i].len = chunk_size + 1

\* C30: after an exception left the pipeline the driver loop logs it and
\* ends: its next step ends the run with no row read, sent or written to the
\* state table, nothing of the kind happens after it, and every run on a
\* finite source ends.
ExceptionEscaped == pc = "raised" \/ (pc = "done" /\ ready # <<>>)

C30_DriverEndsAfterException ==
    /\ [][ExceptionEscaped =>
            /\ pc' = "done"
            /\ UNCHANGED <<pos, taken, entered, posts, sentCount, pstate,
                           committed>>]_vars
    /\ (pc = "raised") ~> (pc = "done")
    /\ <>[](pc = "done")

\* An exception ended a run that kept a state table while rows of the source
\* were still unread.
C30_Witness ==
    /\ pc = "done" /\ ready # <<>> /\ state
    /\ SourceLeft # {}

(***************************************************************************)
(* Claims about the internal backend                                       *)
(***************************************************************************)
\* What a request left behind in the committed tables: the row of main that
\* carries its patch's _revision, and the rows of lists and changes that
\* carry its transaction.
TracesOf(item, tx) ==
    {id \in PgIds : main[id] # NoRow /\ main[id]["_revision"] = item.revision}
    \cup {r.id : r \in {l \in lists : l.transaction = tx}}
    \cup {c.id : c \in {d \in changes : d.transaction = tx}}

\* C9: an update or patch is applied only where the stored row still has the
\* _revision the writer read: of the updates that read the same revision of
\* the same row at most one is committed, and a writer whose UPDATE matched
\* no row fails and leaves nothing in the main, lists and changes tables.
C9_UpdateAtReadRevisionOnly ==
    /\ \A a, b \in applied : (a.id = b.id /\ a.read = b.read) => a.tx = b.tx
    /\ \A w \in Writers :
         (wmain[w] # <<>> /\ wop[w].action \in {"update", "patch"})
            => main[wmain[w][1]]["_revision"] = wsaved[w]["_revision"]
    /\ \A w \in Writers :
         werr[w] = "UpdateFailed"
            => /\ wpc[w] = "failed"
               /\ wmain[w] = <<>> /\ wlists[w] = <<>> /\ wlog[w] = {}
               /\ wtx[w] \notin txns
               /\ TracesOf(wop[w], wtx[w]) = {}

\* Two writers read the same revision of the same row; one update is
\* committed and the other has failed.
C9_Witness ==
    \E w \in Writers, a \in applied :
        /\ werr[w] = "UpdateFailed"
        /\ wsaved[w]["_id"] = a.id /\ wsaved[w]["_revision"] = a.read
        /\ wtx[w] # a.tx
        /\ main[a.id] # NoRow /\ main[a.id]["_revision"] # a.read

\* The entries of the changes table of a row of main.
ChangesOf(id) == {c \in changes : c.id = id}

\* C10: once the writes in flight are over, every row of main has an entry
\* in the changes table, and the revision of the entry with the greatest
\* change for the row's id is the row's _revision.
C10_LatestChangeHasRevision ==
    (\A w \in Writers : ~InFlight(w)) =>
        \A id \in PgIds :
            main[id] # NoRow =>
                \E c \in ChangesOf(id) :
                    /\ \A d \in ChangesOf(id) : d.change <= c.change
                    /\ c.revision = main[id]["_revision"]

\* Every entry of the changes table written so far, committed or not.
AllWritten == changes \cup UNION {wlog[w] : w \in Writers}

\* C11 as stated: no operation modifies or removes an entry of the changes
\* table, and every entry that appears in it has a change strictly greater
\* than every change already there.
C11_ChangesAppendOnly ==
    [][/\ changes \subseteq changes'
       /\ \A c \in changes' \ changes : \A d \in changes : d.change < c.change]_vars

\* C11 as amended: apart from wipe, which empties the table, no step removes
\* or rewrites a committed entry; every entry is written with a change
\* strictly greater than every change written before it, committed or not;
\* and a committed insert, update, patch or delete adds exactly the one
\* entry it wrote.
C11_AppendOnlyBetweenWipes ==
    [][/\ (\E w \in Writers : PgWipe(w)) \/ changes \subseteq changes'
       /\ \A c \in AllWritten' \ AllWritten :
             \A d \in AllWritten : d.change < c.change
       /\ \A w \in Writers :
             (wpc[w] = "logged" /\ wpc'[w] = "committed")
                => /\ Cardinality(changes' \ changes) = 1
                   /\ changes' \ changes = wlog[w]]_vars

\* Two entries are committed, the later-written one with the greater change.
C11_Witness ==
    \E c, d \in changes : c.change < d.change /\ c.id = d.id

\* The transactions whose rows are in the model's committed tables.
VisibleTransactions ==
    {main[id]["_transaction"] : id \in {i \in PgIds : main[i] # NoRow}}
    \cup {l.transaction : l \in lists}
    \cup {c.transaction : c \in changes}

\* C12: the writes of one transaction(write=True) scope are atomic.  While
\* the scope is open, and after a fault has ended it, neither its row of the
\* transaction table nor any row it wrote to main, lists or changes is
\* visible; every visible row belongs to a committed transaction; and when
\* the scope exits normally its transaction row and all its rows become
\* visible in the same step.
C12_TransactionAtomic ==
    /\ [](/\ VisibleTransactions \subseteq txns
          /\ \A w \in Writers :
                (InFlight(w) \/ wpc[w] = "failed")
                   => /\ wtx[w] \notin txns
                      /\ wtx[w] \notin VisibleTransactions
                      /\ TracesOf(wop[w], wtx[w]) = {}
          /\ \A w \in Writers : wpc[w] = "committed" => wtx[w] \in txns)
    /\ [][\A w \in Writers :
            (wpc[w] = "logged" /\ wpc'[w] = "committed")
               => /\ wtx[w] \in txns'
                  /\ wlog[w] \subseteq changes'
                  /\ wmain[w] # <<>> => main'[wmain[w][1]] = wmain[w][2]
                  /\ wlists[w] # <<>>
                        => {l \in lists' : l.id = wlists[w][1]} = wlists[w][2]]_vars

\* The only request so far wrote its rows and its change entry and was then
\* cancelled: nothing of it is visible.
C12_Witness ==
    \E w \in Writers :
        /\ ops = 1 /\ changeSeq = 1
        /\ wpc[w] = "failed" /\ werr[w] = "Cancelled"
        /\ wop[w].action = "insert" /\ wop[w].tags # None

C26_ListsForeignKeyHolds ==
    /\ \A r \in lists : main[r.id] # NoRow
    /\ \A w \in Writers :
          ~(wop[w].action = "delete" /\ werr[w] = "IntegrityError")

\* C28 (as claimed): whatever way concurrent insert and update requests
\* interleave, no two rows of main hold the same value of the unique
\* property.
C28_UniqueUnderConcurrency ==
    \A i, j \in PgIds :
        i # j /\ main[i] # NoRow /\ main[j] # NoRow =>
            main[i]["val"] # main[j]["val"]

(***************************************************************************)
(* Claims about single calls                                               *)
(***************************************************************************)
StartsWith(key, place) ==
    Len(key) >= Len(place) /\ SubSeq(key, 1, Len(place)) = place

\* C14: for every list property P of the data of a row, the number of the
\* row's lists rows whose key starts with the place of P is the number of
\* values the row holds under P.
C14_ListsRowsCountLeaves ==
    fn = "_update_lists_table" =>
        \A i \in 1..Len(ListProps) :
            Cardinality({r \in 1..Len(out) :
                            StartsWith(out[r].key, <<ListProps[i]>>)})
              = IF ListProps[i] \in DOMAIN arg THEN Len(arg[ListProps[i]]) ELSE 0

\* The entries of the table a call of changes() is asked about, and the
\* changes of the ones it returned.
AskedFeed == {c \in arg.table : arg.id = None \/ c.id = arg.id}
Returned == {out[i] : i \in 1..Len(out)}

\* What all readings of the claim share: ascending order, the id's entries
\* only, at most limit of them, and the ones with the least changes among
\* those the offset admits.
ChangesReturns(admitted) ==
    /\ \A i, j \in 1..Len(out) : i < j => out[i].change < out[j].change
    /\ Returned \subseteq admitted
    /\ arg.limit # None => Len(out) <= arg.limit
    /\ \/ Returned = admitted
       \/ arg.limit # None /\ Len(out) = arg.limit
    /\ \A c \in Returned, d \in admitted \ Returned : c.change < d.change

OthersHolding ==
    {i \in UniqueIds \ {arg.id} : arg.table[i] = arg.value}

\* C16: an insert whose value for a unique property is held by an existing
\* row fails with UniqueConstraint and writes nothing; an update or patch
\* fails with UniqueConstraint exactly when a row other than the saved one
\* holds the value, so that submitting the row's own value again is accepted
\* and written.
C16_UniqueConstraintOnOtherRows ==
    fn = "check_unique_constraint" =>
        /\ OthersHolding # {} =>
              out.error = "UniqueConstraint" /\ out.main = arg.table
        /\ OthersHolding = {} =>
              /\ out.error = "none"
              /\ out.main = [arg.table EXCEPT ![arg.id] = arg.value]

\* An update that submits the saved row's own value while another row holds
\* a different one: it is accepted.
C16_Witness ==
    /\ fn = "check_unique_constraint"
    /\ arg.action = "update"
    /\ arg.table[arg.id] = arg.value
    /\ \E i \in UniqueIds \ {arg.id} : arg.table[i] # None
    /\ out.error = "none"

\* The values of a list
Elements(list) == {list[n] : n \in 1..Len(list)}

\* C17 (as claimed): a getall filter ne(P, v) on a property P stored under a
\* list returns the rows whose list holds no value equal to v, the rows
\* without the key P among them.
C17_NeReturnsRowsWithoutValue ==
    fn = "getall" /\ arg.name = "ne" =>
        /\ out.raised = "none"
        /\ out.rows = {i \in PgIds : arg.value \notin Elements(arg.table[i])}

\* C18 (as claimed): for every qualified name, allocated table id and table
\* type the table name has at most 63 characters, and two different
\* qualified names never get the same table name, also when their cleaned
\* and truncated prefixes are the same.
C18_TableNameShortAndUnique ==
    fn = "get_table_name" =>
        /\ Len(out[1]) <= 63 /\ Len(out[2]) <= 63
        /\ out[1] # out[2]

\* C20: when a MultipleErrors is handled, all the errors it aggregates have
\* the same status code, the response has that status code, and the response
\* has one entry per aggregated error, in their order.
C20_MultipleErrorsOneStatus ==
    fn = "error" /\ arg.type = "MultipleErrors" =>
        /\ \A i \in 1..Len(arg.errors) :
              arg.errors[i].status_code = out.status_code
        /\ Len(out.errors) = Len(arg.errors)
        /\ \A i \in 1..Len(arg.errors) :
              /\ out.errors[i].code = arg.errors[i].type
              /\ out.errors[i].property = arg.errors[i].property

\* A MultipleErrors of two errors was handled.
C20_Witness ==
    /\ fn = "error" /\ arg.type = "MultipleErrors"
    /\ Len(arg.errors) = 2
    /\ arg.errors[1].property # arg.errors[2].property
    /\ Len(out.errors) = 2

\* C21 (as claimed): for every row the external getall yields with _id i,
\* getone(model, i) decodes i to the row's natural key (the one value, or the
\* ordered list for a composite key) and returns that source row.
C21_GetoneReturnsRowOfId ==
    fn = "getone" =>
        /\ out.key = PkVal(arg.model, arg.row)
        /\ out.raised = "none"
        /\ out.data = arg.row

\* C22 (as claimed): a PATCH that carries the reserved field _id never
\* raises UniqueConstraint because of it, whatever the other rows hold.
C22_PatchSkipsReservedFields ==
    fn = "check_unique_constraint(_id)" /\ arg.action = "patch" =>
        out # "UniqueConstraint"

\* C23 (as claimed): the value stored for a reference property is
\* {_id: encode(target model type, value)} with no level or a level above 3,
\* {refprop name: value} at level <= 3 with exactly one refprop, and
\* {_id: encode(target model type, value)} in every other case at level <= 3.
C23_RefValueByLevel ==
    fn \in {"handle_ref_key_assignment", "getall(ref)"} =>
        /\ out.raised = "none"
        /\ out.val = IF arg.level # None /\ arg.level <= 3 /\ arg.refprops = 1
                     THEN RefByName("refprops[0]", arg.value)
                     ELSE RefById(arg.value)

\* C27 (as claimed): a getall filter or sort on a property of a model is
\* evaluated against the model's lists table exactly when the property lies
\* under an array of that model, whatever other models the backend prepared,
\* and it does not fail.
C27_ListsTableIffUnderOwnArray ==
    fn = "getall(prepared)" =>
        /\ out.raised = "none"
        /\ out.against = "lists" <=>
              arg.manifest[arg.model][arg.key] = "Array"

\* C29 (as claimed): a getall with a sort returns the same set of rows as the
\* getall without it, also when the key is held in a list and some rows have
\* no value for it.
C29_SortKeepsRowSet ==
    fn = "getall(sort)" =>
        DOMAIN out = DOMAIN GetallSorted(arg.table, NoSort)

(***************************************************************************)
(* Claims about the table registry                                         *)
(***************************************************************************)
\* C19 (as claimed): the registry maps each qualified name to exactly one
\* id: all calls of get_table_name for a name, repeated or concurrent,
\* return the same id, and the registry holds a single row for the name.
C19_OneIdPerName ==
    /\ \A r \in results : r.raised = "none"
    /\ \A r, q \in results : r.name = q.name => r.id = q.id
    /\ \A name \in QualifiedNames : Cardinality(RowsNamed(name)) <= 1

====
